---- MODULE Spec2Model ----
(***************************************************************************)
(* ConfluencePreprocessor.markdown_to_confluence_storage                    *)
(* (src/src/mcp_atlassian/preprocessing/confluence.py).                     *)
(*                                                                         *)
(* A call renders Markdown to HTML, converts it through the md2conf        *)
(* pipeline inside a scratch directory and, when that raises, falls back   *)
(* to replacing <pre><code> blocks by Confluence code macros with          *)
(* BeautifulSoup; when that raises too it returns the rendered HTML.       *)
(*                                                                         *)
(* Strings.  An HTML string is a sequence of nodes (its well-formed markup *)
(* read as a forest); text carries the lexemes written in the string       *)
(* ("&lt;", "&quot;", ...) and a void element carries the way it is        *)
(* closed (" />" or "/>").  The macro fragment of lines 125-139 is built   *)
(* by concatenating raw text, so it is a flat sequence of lexemes and is   *)
(* scanned the way html.parser scans it.  The rendered HTML is valid HTML: *)
(* a <pre> holds phrasing content only, so no <pre> is nested in a <pre>.  *)
(***************************************************************************)
EXTENDS Integers, Sequences, FiniteSets, TLC

\* ---------------------------------------------------------------- bounds
NumCalls == 2      \* calls interleaved in SpecConc
MaxText == 3       \* lexemes of text in a code block
MaxClassLen == 3   \* tokens in one class name
MaxClasses == 2    \* class names on a code element
MaxBlocks == 2     \* top-level blocks of a rendered document

SeqsUpTo(S, n) == UNION {[1..k -> S] : k \in 0..n}
NonEmptySeqsUpTo(S, n) == UNION {[1..k -> S] : k \in 1..n}

RECURSIVE Flat(_)
Flat(ss) == IF ss = <<>> THEN <<>> ELSE Head(ss) \o Flat(Tail(ss))

\* ------------------------------------------------------------ HTML nodes
\* kind: "text" (data = text), "tag" (name, attrs, kids), "void" (name,
\* data = how the tag is closed), "soup" (a parsed fragment, kids = its
\* items), "ftag" / "cdata" / "raw" (items of a fragment, data = lexemes)
Node(kind, name, attrs, kids, data) ==
  [kind |-> kind, name |-> name, attrs |-> attrs, kids |-> kids, data |-> data]

Text(s) == Node("text", "", <<>>, <<>>, s)
Tag(name, attrs, kids) == Node("tag", name, attrs, kids, <<>>)
Void(name, close) == Node("void", name, <<>>, <<>>, close)
NoNode == Node("none", "", <<>>, <<>>, <<>>)

\* an attribute is <<name, words>>, words the whitespace-separated values
HasAttr(n, a) == \E i \in 1..Len(n.attrs) : n.attrs[i][1] = a
GetAttr(n, a, default) ==
  IF HasAttr(n, a)
  THEN n.attrs[CHOOSE i \in 1..Len(n.attrs) : n.attrs[i][1] = a][2]
  ELSE default

\* characters of text, and the lexemes that write them in an HTML string
Chars == {"1", "<", ">", "&", "]", "\""}
SrcChars == {"1", "&lt;", "&gt;", "&amp;", "]", "&quot;"}

\* html.parser decodes character references in text
Unescape(l) ==
  CASE l = "&lt;" -> "<"
    [] l = "&gt;" -> ">"
    [] l = "&amp;" -> "&"
    [] l = "&quot;" -> "\""
    [] OTHER -> l

\* bs4's default ("minimal") formatter escapes &, < and > in text
Escape(ch) ==
  CASE ch = "<" -> "&lt;"
    [] ch = ">" -> "&gt;"
    [] ch = "&" -> "&amp;"
    [] OTHER -> ch

UnescapeAll(s) == [i \in 1..Len(s) |-> Unescape(s[i])]
EscapeAll(s) == [i \in 1..Len(s) |-> Escape(s[i])]

\* BeautifulSoup(html_content, "html.parser"): the tree of the string
RECURSIVE ParseNode(_)
ParseNode(n) ==
  CASE n.kind = "text" -> Text(UnescapeAll(n.data))
    [] n.kind = "void" -> Void(n.name, <<>>)
    [] OTHER -> [n EXCEPT !.kids = [i \in 1..Len(n.kids) |-> ParseNode(n.kids[i])]]

BeautifulSoup(html) == [i \in 1..Len(html) |-> ParseNode(html[i])]

\* the lexemes of a parsed fragment's item, as str() writes them
ItemStr(it) ==
  CASE it.kind = "cdata" -> <<"<![CDATA[">> \o it.data \o <<"]", "]", ">">>
    [] it.kind = "text" -> EscapeAll(it.data)
    [] OTHER -> it.data

\* str(soup)
RECURSIVE StrNode(_)
StrNode(n) ==
  CASE n.kind = "text" -> Text(EscapeAll(n.data))
    [] n.kind = "void" -> Void(n.name, <<"/>">>)
    [] n.kind = "soup" ->
         Node("raw", "", <<>>, <<>>, Flat([i \in 1..Len(n.kids) |-> ItemStr(n.kids[i])]))
    [] OTHER -> [n EXCEPT !.kids = [i \in 1..Len(n.kids) |-> StrNode(n.kids[i])]]

Str(soup) == [i \in 1..Len(soup) |-> StrNode(soup[i])]

\* soup.find_all(name): the matching elements in document order, each
\* named by its path (child indices from the top)
RECURSIVE FindAllFrom(_, _, _, _)
FindAllFrom(nodes, i, prefix, name) ==
  IF i > Len(nodes) THEN <<>>
  ELSE LET n == nodes[i]
           p == Append(prefix, i)
           self == IF n.kind = "tag" /\ n.name = name THEN <<p>> ELSE <<>>
           below == IF n.kind = "tag" THEN FindAllFrom(n.kids, 1, p, name) ELSE <<>>
       IN self \o below \o FindAllFrom(nodes, i + 1, prefix, name)

FindAll(nodes, name) == FindAllFrom(nodes, 1, <<>>, name)

RECURSIVE NodeAt(_, _)
NodeAt(nodes, path) ==
  IF Len(path) = 1 THEN nodes[path[1]]
  ELSE NodeAt(nodes[path[1]].kids, Tail(path))

\* a search among the children only, as find(name, recursive=False)
FindChild(n, name) ==
  LET hits == {i \in 1..Len(n.kids) : n.kids[i].kind = "tag" /\ n.kids[i].name = name}
  IN IF hits = {} THEN NoNode ELSE n.kids[CHOOSE i \in hits : \A j \in hits : i <= j]

\* pre.find("code"): the first descendant of that name, or None
Find(n, name) ==
  LET found == FindAll(n.kids, name)
  IN IF found = <<>> THEN NoNode ELSE NodeAt(n.kids, found[1])

\* code.get_text(): the text of all descendants, in order
RECURSIVE GetText(_)
GetText(n) ==
  IF n.kind = "text" THEN n.data
  ELSE Flat([i \in 1..Len(n.kids) |-> GetText(n.kids[i])])

\* pre.replace_with(new)
RECURSIVE ReplaceAt(_, _, _)
ReplaceAt(nodes, path, new) ==
  IF Len(path) = 1 THEN [nodes EXCEPT ![path[1]] = new]
  ELSE [nodes EXCEPT ![path[1]].kids = ReplaceAt(nodes[path[1]].kids, Tail(path), new)]

\* ------------------------------------------------- the code macro fragment
MacroOpen == "<ac:structured-macro ac:name=\"code\" ac:schema-version=\"1\">"
ParamOpen == "<ac:parameter ac:name=\"language\">"
ParamClose == "</ac:parameter>"
BodyOpen == "<ac:plain-text-body>"
CDataOpen == "<![CDATA["
BodyClose == "</ac:plain-text-body>"
MacroClose == "</ac:structured-macro>"
TagLexemes == {MacroOpen, ParamOpen, ParamClose, BodyOpen, BodyClose, MacroClose}

\* Python's None is <<>>; a string s is <<s>>
None == <<>>
Some(s) == <<s>>
Truthy(v) == v # None /\ v[1] # <<>>

StartsWithLanguage(cls) == Len(cls) >= 2 /\ cls[1] = "language" /\ cls[2] = "-"

\* cls.rsplit("-", 1)[1]: what follows the last hyphen
SplitLast(cls) ==
  LET k == CHOOSE i \in 1..Len(cls) :
             cls[i] = "-" /\ \A j \in (i + 1)..Len(cls) : cls[j] # "-"
  IN SubSeq(cls, k + 1, Len(cls))

\* cls.split("-", 1)[1]: everything after the first hyphen
SplitFirst(cls) ==
  LET k == CHOOSE i \in 1..Len(cls) :
             cls[i] = "-" /\ \A j \in 1..(i - 1) : cls[j] # "-"
  IN SubSeq(cls, k + 1, Len(cls))

\* lines 114-119: the language of the first class that starts "language-"
DetectLanguage(code) ==
  IF HasAttr(code, "class")
  THEN LET classes == GetAttr(code, "class", <<>>)
           hits == {i \in 1..Len(classes) : StartsWithLanguage(classes[i])}
       IN IF hits = {} THEN None
          ELSE Some(SplitFirst(classes[CHOOSE i \in hits : \A j \in hits : i <= j]))
  ELSE None

\* the macro built without its language parameter
MacroHtmlNoLanguage(language, code_text) ==
  <<MacroOpen, BodyOpen, CDataOpen>> \o code_text \o <<"]", "]", ">", BodyClose, MacroClose>>

\* lines 125-139: "".join(macro_parts)
MacroHtml(language, code_text) ==
  <<MacroOpen>>
  \o (IF Truthy(language) THEN <<ParamOpen>> \o language[1] \o <<ParamClose>> ELSE <<>>)
  \o <<BodyOpen, CDataOpen>>
  \o code_text
  \o <<"]", "]", ">", BodyClose>>
  \o <<MacroClose>>

\* html.parser ends a CDATA section at the first "]]>" after its opening
CDataEnd(lex, i) ==
  LET ends == {j \in i..(Len(lex) - 2) :
                 lex[j] = "]" /\ lex[j + 1] = "]" /\ lex[j + 2] = ">"}
  IN IF ends = {} THEN 0 ELSE CHOOSE j \in ends : \A k \in ends : j <= k

IsMarkup(l) == l \in TagLexemes \/ l = CDataOpen

\* the end of the run of character data that starts at i
RECURSIVE DataEnd(_, _)
DataEnd(lex, i) ==
  IF i < Len(lex) /\ ~IsMarkup(lex[i + 1]) THEN DataEnd(lex, i + 1) ELSE i

\* html.parser over the fragment: tags, CDATA sections (bs4 keeps them as
\* CData strings), and everything else as text
RECURSIVE ScanFragment(_, _)
ScanFragment(lex, i) ==
  IF i > Len(lex) THEN <<>>
  ELSE IF lex[i] \in TagLexemes
       THEN <<Node("ftag", "", <<>>, <<>>, <<lex[i]>>)>> \o ScanFragment(lex, i + 1)
  ELSE IF lex[i] = CDataOpen /\ CDataEnd(lex, i + 1) # 0
       THEN LET j == CDataEnd(lex, i + 1)
            IN <<Node("cdata", "", <<>>, <<>>, SubSeq(lex, i + 1, j - 1))>>
               \o ScanFragment(lex, j + 3)
  ELSE LET j == DataEnd(lex, i)
       IN <<Text(SubSeq(lex, i, j))>> \o ScanFragment(lex, j + 1)

\* BeautifulSoup(macro_html, "html.parser")
BeautifulSoupFragment(macro_html) ==
  Node("soup", "", <<>>, ScanFragment(macro_html, 1), <<>>)

\* lines 109-142 for one <pre>: the tree after this iteration
ConvertPre(soup, path) ==
  LET pre == NodeAt(soup, path)
      code == Find(pre, "code")
  IN IF code = NoNode THEN soup
     ELSE LET language == DetectLanguage(code)
              code_text == GetText(code)
              macro_html == MacroHtml(language, code_text)
          IN ReplaceAt(soup, path, BeautifulSoupFragment(macro_html))

\* ------------------------------------------------------ md2conf pipeline
\* elements_from_string, ConfluenceStorageFormatConverter.visit and
\* elements_to_string are library calls: the tree of the string, the tree
\* rewritten in place to storage format, and that tree written out
ElementsFromString(html) == Node("etree", "root", <<>>, html, <<>>)
VisitTreeSkipped(root) == root
VisitTree(root) == [root EXCEPT !.name = "storage"]
ElementsToString(root) == <<[root EXCEPT !.kind = "string"]>>

\* ------------------------------------------------------------- inputs
ClassTok == {"language", "-"}
ClassNames == NonEmptySeqsUpTo(ClassTok, MaxClassLen)
ClassLists == SeqsUpTo(ClassNames, MaxClasses)
CodeTexts == SeqsUpTo(SrcChars, MaxText)

Pre(kids) == Tag("pre", <<>>, kids)
Code(attrs, text) == Tag("code", attrs, IF text = <<>> THEN <<>> ELSE <<Text(text)>>)
Class(words) == << <<"class", words>> >>
One == <<Text(<<"1">>)>>

\* documents with one fenced block, over every code text / class list
TextDocs == {<<Pre(<<Code(<<>>, t)>>)>> : t \in CodeTexts}
ClassDocs == {<<Pre(<<Code(Class(cl), <<"1">>)>>)>> : cl \in ClassLists}

\* documents made of the blocks a renderer writes
Blocks ==
  { Tag("p", <<>>, <<Tag("strong", <<>>, One), Tag("em", <<>>, One),
                     Tag("a", << <<"href", << <<"u">> >> >> >>, One)>>),
    Tag("ul", <<>>, <<Tag("li", <<>>, <<Text(<<"&quot;", "&amp;">>)>>),
                      Tag("li", <<>>, <<Tag("code", <<>>, <<Text(<<"&lt;">>)>>)>>)>>),
    Void("hr", <<" />">>),
    Pre(One),
    Pre(<<Code(Class(<< <<"language", "-", "c">> >>), <<"&lt;", "1">>)>>),
    Pre(<<Text(<<"1">>), Code(<<>>, <<"1">>), Text(<<"1">>)>>),
    Pre(<<Tag("span", <<>>, <<Code(<<>>, <<"1">>)>>)>>),
    Tag("blockquote", <<>>, <<Tag("p", <<>>, One), Pre(<<Code(<<>>, <<"]">>)>>)>>) }
BlockDocs == SeqsUpTo(Blocks, MaxBlocks)

Docs == TextDocs \cup ClassDocs \cup BlockDocs
ConcDocs == {<<Pre(<<Code(<<>>, <<"1">>)>>)>>}

NoDir == 0

\* ---------------------------------------------------------------- state
VARIABLES
  rendered,        \* per call: the HTML markdown_to_html yields for its markdown_content
  pc,              \* per call: where the call is
  html_content, temp_dir, root, storage_format, soup,   \* per call: its locals
  pres, idx,       \* per call: the list of soup.find_all("pre") and the loop position
  exc,             \* per call: an exception is in flight through the finally block
  ret,             \* per call: how the call ended, and the string returned
  log,             \* per call: the levels of the records it logged, in order
  renders, parses, \* per call: invocations of markdown_to_html / BeautifulSoup
  failed,          \* per call: the try blocks that raised
  fs               \* the scratch directories that exist

vars == <<rendered, pc, html_content, temp_dir, root, storage_format, soup,
          pres, idx, exc, ret, log, renders, parses, failed, fs>>

Calls == DOMAIN pc

\* the names mkdtemp can hand out: enough for every call to hold one
DirNames == 1..Cardinality(Calls)

InitCalls(cs, docs) ==
  /\ rendered \in [cs -> docs]
  /\ pc = [c \in cs |-> "start"]
  /\ html_content = [c \in cs |-> <<>>]
  /\ temp_dir = [c \in cs |-> NoDir]
  /\ root = [c \in cs |-> NoNode]
  /\ storage_format = [c \in cs |-> <<>>]
  /\ soup = [c \in cs |-> <<>>]
  /\ pres = [c \in cs |-> <<>>]
  /\ idx = [c \in cs |-> 0]
  /\ exc = [c \in cs |-> FALSE]
  /\ ret = [c \in cs |-> [kind |-> "none", val |-> <<>>]]
  /\ log = [c \in cs |-> <<>>]
  /\ renders = [c \in cs |-> 0]
  /\ parses = [c \in cs |-> 0]
  /\ failed = [c \in cs |-> {}]
  /\ fs = {}

Init == InitCalls({1}, Docs)
InitConc == InitCalls(1..NumCalls, ConcDocs)

Locals == <<html_content, temp_dir, root, storage_format, soup, pres, idx>>

\* the locals of a call end with the call
DropLocals(c) ==
  /\ html_content' = [html_content EXCEPT ![c] = <<>>]
  /\ temp_dir' = [temp_dir EXCEPT ![c] = NoDir]
  /\ root' = [root EXCEPT ![c] = NoNode]
  /\ storage_format' = [storage_format EXCEPT ![c] = <<>>]
  /\ soup' = [soup EXCEPT ![c] = <<>>]
  /\ pres' = [pres EXCEPT ![c] = <<>>]
  /\ idx' = [idx EXCEPT ![c] = 0]

\* an exception raised inside the inner try (lines 60-86) runs the finally
\* block first; one raised before it goes straight to the handler
RaiseInTry(c) ==
  /\ pc' = [pc EXCEPT ![c] = "finally"]
  /\ exc' = [exc EXCEPT ![c] = TRUE]
  /\ failed' = [failed EXCEPT ![c] = @ \cup {"primary"}]

RaiseBeforeTry(c) ==
  /\ pc' = [pc EXCEPT ![c] = "except"]
  /\ failed' = [failed EXCEPT ![c] = @ \cup {"primary"}]
  /\ UNCHANGED exc

RaiseInFallback(c) ==
  /\ pc' = [pc EXCEPT ![c] = "inner_except"]
  /\ failed' = [failed EXCEPT ![c] = @ \cup {"fallback"}]

\* line 55
Render(c) ==
  /\ pc[c] = "start"
  /\ renders' = [renders EXCEPT ![c] = @ + 1]
  /\ \/ /\ html_content' = [html_content EXCEPT ![c] = rendered[c]]
        /\ pc' = [pc EXCEPT ![c] = "mkdtemp"]
        /\ UNCHANGED <<exc, failed>>
     \/ RaiseBeforeTry(c) /\ UNCHANGED html_content
  /\ UNCHANGED <<rendered, temp_dir, root, storage_format, soup, pres, idx,
                 ret, log, parses, fs>>

\* a mkdtemp that may hand out a name already in use
AnyName(existing) == DirNames

\* tempfile.mkdtemp: the names it can create, none of which exists yet
FreshNames(existing) == DirNames \ existing

\* line 58
Mkdtemp(c) ==
  /\ pc[c] = "mkdtemp"
  /\ \/ \E d \in FreshNames(fs) :
          /\ temp_dir' = [temp_dir EXCEPT ![c] = d]
          /\ fs' = fs \cup {d}
          /\ pc' = [pc EXCEPT ![c] = "parse"]
          /\ UNCHANGED <<exc, failed>>
     \/ RaiseBeforeTry(c) /\ UNCHANGED <<temp_dir, fs>>
  /\ UNCHANGED <<rendered, html_content, root, storage_format, soup, pres, idx,
                 ret, log, renders, parses>>

\* line 62
Parse(c) ==
  /\ pc[c] = "parse"
  /\ \/ /\ root' = [root EXCEPT ![c] = ElementsFromString(html_content[c])]
        /\ pc' = [pc EXCEPT ![c] = "construct"]
        /\ UNCHANGED <<exc, failed>>
     \/ RaiseInTry(c) /\ UNCHANGED root
  /\ UNCHANGED <<rendered, html_content, temp_dir, storage_format, soup, pres, idx,
                 ret, log, renders, parses, fs>>

\* lines 65-78: the options and the converter
Construct(c) ==
  /\ pc[c] = "construct"
  /\ \/ pc' = [pc EXCEPT ![c] = "visit"] /\ UNCHANGED <<exc, failed>>
     \/ RaiseInTry(c)
  /\ UNCHANGED <<rendered, Locals, ret, log, renders, parses, fs>>

\* line 81
Visit(c) ==
  /\ pc[c] = "visit"
  /\ \/ /\ root' = [root EXCEPT ![c] = VisitTree(@)]
        /\ pc' = [pc EXCEPT ![c] = "serialize"]
        /\ UNCHANGED <<exc, failed>>
     \/ RaiseInTry(c) /\ UNCHANGED root
  /\ UNCHANGED <<rendered, html_content, temp_dir, storage_format, soup, pres, idx,
                 ret, log, renders, parses, fs>>

\* lines 84-86: the return value is computed, then the finally block runs
Serialize(c) ==
  /\ pc[c] = "serialize"
  /\ \/ /\ storage_format' = [storage_format EXCEPT ![c] = ElementsToString(root[c])]
        /\ pc' = [pc EXCEPT ![c] = "finally"]
        /\ UNCHANGED <<exc, failed>>
     \/ RaiseInTry(c) /\ UNCHANGED storage_format
  /\ UNCHANGED <<rendered, html_content, temp_dir, root, soup, pres, idx,
                 ret, log, renders, parses, fs>>

\* a finally block that leaves the directory behind
RmtreeKeeps(dirs, d) == dirs

\* shutil.rmtree(temp_dir, ignore_errors=True)
Rmtree(dirs, d) == dirs \ {d}

\* lines 87-89, then the return of line 86 or the handler of line 91
Finally(c) ==
  /\ pc[c] = "finally"
  /\ fs' = Rmtree(fs, temp_dir[c])
  /\ IF exc[c]
     THEN /\ pc' = [pc EXCEPT ![c] = "except"]
          /\ UNCHANGED <<ret, Locals>>
     ELSE /\ pc' = [pc EXCEPT ![c] = "done"]
          /\ ret' = [ret EXCEPT ![c] = [kind |-> "storage", val |-> storage_format[c]]]
          /\ DropLocals(c)
  /\ exc' = [exc EXCEPT ![c] = FALSE]
  /\ UNCHANGED <<rendered, log, renders, parses, failed>>

\* a handler that logs nothing
NoErrorRecords == <<>>

\* logger.error and logger.exception both log at error level
ErrorRecords == <<"ERROR", "ERROR">>

\* lines 92-93
Except(c) ==
  /\ pc[c] = "except"
  /\ log' = [log EXCEPT ![c] = @ \o ErrorRecords]
  /\ pc' = [pc EXCEPT ![c] = "render"]
  /\ UNCHANGED <<rendered, Locals, exc, ret, renders, parses, failed, fs>>

\* line 99: inside the handler, outside the inner try
Rerender(c) ==
  /\ pc[c] = "render"
  /\ renders' = [renders EXCEPT ![c] = @ + 1]
  /\ \/ /\ html_content' = [html_content EXCEPT ![c] = rendered[c]]
        /\ pc' = [pc EXCEPT ![c] = "soup"]
        /\ UNCHANGED <<temp_dir, root, storage_format, soup, pres, idx, ret, failed>>
     \/ /\ pc' = [pc EXCEPT ![c] = "raised"]
        /\ ret' = [ret EXCEPT ![c] = [kind |-> "raise", val |-> <<>>]]
        /\ failed' = [failed EXCEPT ![c] = @ \cup {"handler"}]
        /\ DropLocals(c)
  /\ UNCHANGED <<rendered, exc, log, parses, fs>>

\* lines 102-108: the import, the parse and the list of <pre> elements
MakeSoup(c) ==
  /\ pc[c] = "soup"
  /\ \/ /\ parses' = [parses EXCEPT ![c] = @ + 1]
        /\ soup' = [soup EXCEPT ![c] = BeautifulSoup(html_content[c])]
        /\ pres' = [pres EXCEPT ![c] = FindAll(BeautifulSoup(html_content[c]), "pre")]
        /\ idx' = [idx EXCEPT ![c] = 1]
        /\ pc' = [pc EXCEPT ![c] = "loop"]
        /\ UNCHANGED failed
     \/ RaiseInFallback(c) /\ UNCHANGED <<parses, soup, pres, idx>>
  /\ UNCHANGED <<rendered, html_content, temp_dir, root, storage_format,
                 exc, ret, log, renders, fs>>

\* lines 109-142: one iteration of the loop
ConvertNext(c) ==
  /\ pc[c] = "loop"
  /\ idx[c] <= Len(pres[c])
  /\ \/ /\ soup' = [soup EXCEPT ![c] = ConvertPre(@, pres[c][idx[c]])]
        /\ parses' = [parses EXCEPT ![c] =
                        IF Find(NodeAt(soup[c], pres[c][idx[c]]), "code") = NoNode
                        THEN @ ELSE @ + 1]
        /\ idx' = [idx EXCEPT ![c] = @ + 1]
        /\ UNCHANGED <<pc, failed>>
     \/ RaiseInFallback(c) /\ UNCHANGED <<soup, parses, idx>>
  /\ UNCHANGED <<rendered, html_content, temp_dir, root, storage_format, pres,
                 exc, ret, log, renders, fs>>

\* line 144
ReturnSoup(c) ==
  /\ pc[c] = "loop"
  /\ idx[c] > Len(pres[c])
  /\ \/ /\ ret' = [ret EXCEPT ![c] = [kind |-> "soup", val |-> Str(soup[c])]]
        /\ pc' = [pc EXCEPT ![c] = "done"]
        /\ DropLocals(c)
        /\ UNCHANGED failed
     \/ RaiseInFallback(c) /\ UNCHANGED <<ret, Locals>>
  /\ UNCHANGED <<rendered, exc, log, renders, parses, fs>>

\* a last resort that returns the partly converted tree instead
LastResortSoup(c) == Str(soup[c])

\* the last-resort return value of line 155
LastResort(c) == html_content[c]

\* lines 145-155
InnerExcept(c) ==
  /\ pc[c] = "inner_except"
  /\ log' = [log EXCEPT ![c] = Append(@, "WARNING")]
  /\ ret' = [ret EXCEPT ![c] = [kind |-> "html", val |-> LastResort(c)]]
  /\ pc' = [pc EXCEPT ![c] = "done"]
  /\ DropLocals(c)
  /\ UNCHANGED <<rendered, exc, renders, parses, failed, fs>>

Next ==
  \E c \in Calls :
    \/ Render(c)
    \/ Mkdtemp(c)
    \/ Parse(c)
    \/ Construct(c)
    \/ Visit(c)
    \/ Serialize(c)
    \/ Finally(c)
    \/ Except(c)
    \/ Rerender(c)
    \/ MakeSoup(c)
    \/ ConvertNext(c)
    \/ ReturnSoup(c)
    \/ InnerExcept(c)

Spec == Init /\ [][Next]_vars
SpecConc == InitConc /\ [][Next]_vars

\* ------------------------------------------------------------ properties
InPrimaryTry == {"parse", "construct", "visit", "serialize", "finally"}
Finished(c) == pc[c] \in {"done", "raised"}
Range(s) == {s[i] : i \in 1..Len(s)}

\* C1: a call never propagates an exception: it ends by returning a string
C1_NeverRaises == \A c \in Calls : pc[c] # "raised"

\* C2: the scratch directory of a call exists exactly while the call is
\* inside the inner try of its primary attempt: it is the only directory
\* then, and no directory exists before the try, when the handler (the
\* fallback) starts or runs, or when the call has ended
C2_ScratchOnlyInPrimary ==
  \A c \in Calls :
    /\ (temp_dir[c] \in fs) <=> (pc[c] \in InPrimaryTry)
    /\ fs = IF pc[c] \in InPrimaryTry THEN {temp_dir[c]} ELSE {}

C2_Witness ==
  \E c \in Calls : pc[c] = "soup" /\ temp_dir[c] # NoDir /\ temp_dir[c] \notin fs

\* C6: when the primary path raised and then the fallback's parse,
\* substitution or serialization raised, the call returns exactly the HTML
\* the renderer produced
C6_LastResortIsRenderedHtml ==
  \A c \in Calls :
    (Finished(c) /\ {"primary", "fallback"} \subseteq failed[c])
      => (pc[c] = "done" /\ ret[c] = [kind |-> "html", val |-> rendered[c]])

C6_Witness ==
  \E c \in Calls :
    /\ pc[c] = "done" /\ {"primary", "fallback"} \subseteq failed[c]
    /\ parses[c] >= 2 /\ ret[c].val = rendered[c]

\* C7: the fallback is entered only after the primary path raised, and a
\* call whose primary path raised nowhere returns the serialized visited
\* tree, renders once, never runs the permissive parser and logs nothing
C7_PrimaryOnly ==
  \A c \in Calls :
    /\ pc[c] \in {"except", "render", "soup", "loop", "inner_except", "raised"}
         => "primary" \in failed[c]
    /\ (pc[c] = "done" /\ failed[c] = {})
         => /\ ret[c] = [kind |-> "storage",
                         val |-> <<Node("string", "storage", <<>>, rendered[c], <<>>)>>]
            /\ renders[c] = 1
            /\ parses[c] = 0
            /\ log[c] = <<>>

C7_Witness == \E c \in Calls : pc[c] = "done" /\ failed[c] = {} /\ rendered[c] # <<>>

\* C8: calls interleaved concurrently share no scratch directory: the
\* directories that exist are exactly those of the calls inside their inner
\* try, one each, and none remains once every call has finished
C8_NoSharedScratch ==
  LET live == {c \in Calls : pc[c] \in InPrimaryTry}
  IN /\ \A c \in live : temp_dir[c] \in fs
     /\ \A c, d \in live : c # d => temp_dir[c] # temp_dir[d]
     /\ fs = {temp_dir[c] : c \in live}
     /\ (\A c \in Calls : Finished(c)) => fs = {}

C8_Witness ==
  \E c, d \in Calls : c # d /\ pc[c] = "finally" /\ pc[d] \in InPrimaryTry

\* C9: a primary exception is logged at error level before the fallback
\* render starts; a finished call has logged a warning exactly when its
\* fallback substitution raised, and every warning follows an error record
C9_LogOrder ==
  \A c \in Calls :
    /\ ("primary" \in failed[c] /\ pc[c] \notin {"finally", "except"})
         => (log[c] # <<>> /\ log[c][1] = "ERROR")
    /\ Finished(c) => (("WARNING" \in Range(log[c])) <=> ("fallback" \in failed[c]))
    /\ \A i \in 1..Len(log[c]) :
         log[c][i] = "WARNING" => \E j \in 1..(i - 1) : log[c][j] = "ERROR"
    /\ "primary" \notin failed[c] => log[c] = <<>>

C9_Witness ==
  \E c \in Calls : pc[c] = "done" /\ log[c] = <<"ERROR", "ERROR", "WARNING">>

\* ------------------------------------------- properties of the fallback
\* the primary path raised and the fallback returned str(soup)
FallbackReturned(c) ==
  pc[c] = "done" /\ "primary" \in failed[c] /\ "fallback" \notin failed[c]

\* the rendered HTML as a tree, its <pre> elements, and what the returned
\* string has in the place of one of them
RenderedTree(c) == BeautifulSoup(rendered[c])
RenderedPres(c) == Range(FindAll(RenderedTree(c), "pre"))
Returned(c, path) == NodeAt(ret[c].val, path)

IsCode(n) == n.kind = "tag" /\ n.name = "code"
HasCodeChild(pre) == \E i \in 1..Len(pre.kids) : IsCode(pre.kids[i])
CodeChild(pre) ==
  pre.kids[CHOOSE i \in 1..Len(pre.kids) :
             IsCode(pre.kids[i]) /\ \A j \in 1..(i - 1) : ~IsCode(pre.kids[j])]
HasCodeDescendant(pre) == FindAll(pre.kids, "code") # <<>>

\* d is the text of exactly one structured macro named "code"
IsOneCodeMacro(d) ==
  /\ Len(d) >= 2
  /\ d[1] = MacroOpen
  /\ d[Len(d)] = MacroClose
  /\ Cardinality({i \in 1..Len(d) : d[i] \in {MacroOpen, MacroClose}}) = 2

\* the macro text d has the language parameter with value name
HasLanguageParam(d, name) ==
  /\ Len(d) >= Len(name) + 3
  /\ SubSeq(d, 2, Len(name) + 3) = <<ParamOpen>> \o name \o <<ParamClose>>

\* cls is language-<name> for a non-empty name, and that name
IsLanguageClass(cls) == Len(cls) >= 3 /\ cls[1] = "language" /\ cls[2] = "-"
IsLanguagePrefixed(cls) == Len(cls) >= 2 /\ cls[1] = "language" /\ cls[2] = "-"
NameOf(cls) == SubSeq(cls, 3, Len(cls))
ClassesOf(code) == GetAttr(code, "class", <<>>)
FirstPrefixed(classes) ==
  classes[CHOOSE i \in 1..Len(classes) :
            /\ IsLanguagePrefixed(classes[i])
            /\ \A j \in 1..(i - 1) : ~IsLanguagePrefixed(classes[j])]
HasPrefixed(classes) == \E i \in 1..Len(classes) : IsLanguagePrefixed(classes[i])

\* C3 as stated: after a forced primary failure every <pre> with a <code>
\* child is replaced by one code macro, and for every class language-<name>
\* of the code element the macro has the language parameter <name>
C3_MacroForEveryLanguageClass ==
  \A c \in Calls : FallbackReturned(c) =>
    \A p \in RenderedPres(c) :
      LET pre == NodeAt(RenderedTree(c), p)
      IN HasCodeChild(pre) =>
           /\ Returned(c, p).kind = "raw"
           /\ IsOneCodeMacro(Returned(c, p).data)
           /\ \A cls \in Range(ClassesOf(CodeChild(pre))) :
                IsLanguageClass(cls) => HasLanguageParam(Returned(c, p).data, NameOf(cls))

\* C3 amended: after a forced primary failure every <pre> with a <code>
\* child is replaced by one code macro, and when the first class of the code
\* element that begins with "language-" is language-<name> with a non-empty
\* name, the macro has the language parameter <name>
C3_MacroForFirstLanguageClass ==
  \A c \in Calls : FallbackReturned(c) =>
    \A p \in RenderedPres(c) :
      LET pre == NodeAt(RenderedTree(c), p)
          classes == ClassesOf(CodeChild(pre))
      IN HasCodeChild(pre) =>
           /\ Returned(c, p).kind = "raw"
           /\ IsOneCodeMacro(Returned(c, p).data)
           /\ (HasPrefixed(classes) /\ IsLanguageClass(FirstPrefixed(classes)))
                => HasLanguageParam(Returned(c, p).data, NameOf(FirstPrefixed(classes)))

C3_Witness ==
  \E c \in Calls :
    /\ FallbackReturned(c)
    /\ \E p \in RenderedPres(c) :
         LET pre == NodeAt(RenderedTree(c), p)
         IN /\ HasCodeChild(pre)
            /\ Len(ClassesOf(CodeChild(pre))) = 2
            /\ IsLanguageClass(ClassesOf(CodeChild(pre))[1])
            /\ ParamOpen \in Range(Returned(c, p).data)

\* C4: in the fallback the text between the opening and the closing of
\* the macro's plain-text body is the code block's text, exactly
C4_BodyVerbatim ==
  \A c \in Calls : FallbackReturned(c) =>
    \A p \in RenderedPres(c) :
      LET pre == NodeAt(RenderedTree(c), p)
          d == Returned(c, p).data
      IN HasCodeDescendant(pre) =>
           \E i \in 1..Len(d) :
             /\ d[i] = BodyOpen
             /\ SubSeq(d, i, Len(d)) =
                  <<BodyOpen, CDataOpen>> \o GetText(Find(pre, "code"))
                    \o <<"]", "]", ">", BodyClose, MacroClose>>

\* src and res are the same markup, except that res has a macro where src
\* has a <pre> with a <code> child
RECURSIVE SameButCodeChild(_, _)
SameButCodeChild(src, res) ==
  /\ Len(src) = Len(res)
  /\ \A i \in 1..Len(src) :
       IF src[i].kind = "tag" /\ src[i].name = "pre" /\ HasCodeChild(src[i])
       THEN res[i].kind = "raw"
       ELSE /\ [res[i] EXCEPT !.kids = <<>>] = [src[i] EXCEPT !.kids = <<>>]
            /\ SameButCodeChild(src[i].kids, res[i].kids)

\* the same, for a <pre> with a <code> descendant
RECURSIVE SameButCodeDescendant(_, _)
SameButCodeDescendant(src, res) ==
  /\ Len(src) = Len(res)
  /\ \A i \in 1..Len(src) :
       IF src[i].kind = "tag" /\ src[i].name = "pre" /\ HasCodeDescendant(src[i])
       THEN res[i].kind = "raw"
       ELSE /\ [res[i] EXCEPT !.kids = <<>>] = [src[i] EXCEPT !.kids = <<>>]
            /\ SameButCodeDescendant(src[i].kids, res[i].kids)

\* C5 as stated: the fallback changes nothing of the rendered HTML but the
\* <pre> blocks with a <code> child: all other markup is returned unchanged
\* and in order
C5_OnlyCodeChildBlocksChange ==
  \A c \in Calls : FallbackReturned(c) => SameButCodeChild(rendered[c], ret[c].val)

\* the rendered HTML as the permissive parser writes it back untouched:
\* void elements closed with "/>", text escaped anew (&quot; becomes ")
Normalised(n) ==
  CASE n.kind = "text" -> Text(EscapeAll(UnescapeAll(n.data)))
    [] n.kind = "void" -> Void(n.name, <<"/>">>)
    [] OTHER -> n

RECURSIVE SameUpToWriting(_, _)
SameUpToWriting(src, res) ==
  /\ Len(src) = Len(res)
  /\ \A i \in 1..Len(src) :
       IF src[i].kind = "tag" /\ src[i].name = "pre" /\ HasCodeDescendant(src[i])
       THEN res[i].kind = "raw"
       ELSE /\ [res[i] EXCEPT !.kids = <<>>] = [Normalised(src[i]) EXCEPT !.kids = <<>>]
            /\ SameUpToWriting(src[i].kids, res[i].kids)

\* C5 amended: the fallback changes nothing of the rendered HTML but the
\* <pre> blocks with a <code> descendant, up to the way the permissive
\* parser writes markup back: all other elements are returned with the
\* same names, attributes, text and order
C5_OnlyCodeBlocksChangeUpToWriting ==
  \A c \in Calls : FallbackReturned(c) => SameUpToWriting(rendered[c], ret[c].val)

C5_Witness ==
  \E c \in Calls :
    /\ FallbackReturned(c)
    /\ Len(rendered[c]) = 2
    /\ rendered[c][1].kind = "void"
    /\ rendered[c][2].name = "pre" /\ ~HasCodeChild(rendered[c][2])
    /\ ret[c].val[2].kind = "raw"

\* C10: in the fallback a macro has a language parameter exactly when the
\* first class of the code element that begins with "language-" has
\* something after the hyphen, and the value is all of it; later classes
\* do not matter
C10_LanguageFromFirstClass ==
  \A c \in Calls : FallbackReturned(c) =>
    \A p \in RenderedPres(c) :
      LET pre == NodeAt(RenderedTree(c), p)
          classes == ClassesOf(Find(pre, "code"))
          d == Returned(c, p).data
      IN HasCodeDescendant(pre) =>
           IF HasPrefixed(classes) /\ Len(FirstPrefixed(classes)) >= 3
           THEN /\ HasLanguageParam(d, NameOf(FirstPrefixed(classes)))
                /\ Cardinality({i \in 1..Len(d) : d[i] = ParamOpen}) = 1
           ELSE ParamOpen \notin Range(d)

C10_Witness ==
  \E c \in Calls :
    /\ FallbackReturned(c)
    /\ \E p \in RenderedPres(c) :
         LET classes == ClassesOf(Find(NodeAt(RenderedTree(c), p), "code"))
         IN /\ Len(classes) = 2
            /\ ~IsLanguagePrefixed(classes[1])
            /\ classes[2] = <<"language", "-", "-">>
            /\ HasLanguageParam(Returned(c, p).data, <<"-">>)

====
